---- MODULE Spec2Model ----
(***************************************************************************)
(* Gibbs sampler for Bayesian simple linear regression                     *)
(* (gibbs_sampling_for_linear_regression.ipynb): the three conditional     *)
(* samplers sample_beta_0, sample_beta_1, sample_tau and the driver gibbs. *)
(*                                                                         *)
(* Numbers.  Reals are exact rationals <<n, d>> (d > 0, lowest terms).     *)
(* The two places where the code leaves the rationals are modelled on a    *)
(* grid of 1/Res: 1 / np.sqrt(precision) is rounded down to the grid and   *)
(* the value np.random.normal returns is rounded to the nearest grid       *)
(* point, as a float64 result is rounded to the float grid.  Overflow and  *)
(* underflow of float64 are not modelled.                                  *)
(*                                                                         *)
(* Random source.  np.random is one global stream.  `tape` holds the raw   *)
(* variates the stream has produced since it was seeded and `pos` is the   *)
(* number of them consumed since the last seeding; a primitive turns the   *)
(* next raw variate into a draw of its distribution.                       *)
(***************************************************************************)
EXTENDS Integers, Sequences, FiniteSets, TLC

VARIABLES entry, y, x, iters, init, hypers,
          pc, it, beta_0, beta_1, tau, trace, ret, err,
          calls, tape, pos, prev

vars == <<entry, y, x, iters, init, hypers,
          pc, it, beta_0, beta_1, tau, trace, ret, err,
          calls, tape, pos, prev>>

inputs == <<entry, y, x, iters, init, hypers>>

----------------------------------------------------------------------------
(* Bounds of the model *)

\* longest observation sequence
MaxN == 3
\* largest iteration budget
MaxIters == 2
\* largest iteration budget of a call that is repeated after reseeding
MaxPairIters == 2
\* grid points per unit of the number grid
Res == 4

----------------------------------------------------------------------------
(* Exact rational arithmetic.  An operator binds each operand once      *)
(* (v \in {a}) before using it, so that an operand is evaluated once.   *)

\* the element of a singleton
The(S) == CHOOSE v \in S : TRUE

Abs(n) == IF n < 0 THEN -n ELSE n

RECURSIVE GCD(_, _)
GCD(a, b) == IF b = 0 THEN a ELSE The({GCD(b, m) : m \in {a % b}})

Rat(n, d) ==
    The({<<(s * n) \div g, (s * d) \div g>> :
           s \in {IF d < 0 THEN -1 ELSE 1}, g \in {GCD(Abs(n), Abs(d))}})

FromInt(n) == <<n, 1>>
Zero == FromInt(0)

RAdd(a, b) == The({Rat(v[1] * w[2] + w[1] * v[2], v[2] * w[2]) : v \in {a}, w \in {b}})
RSub(a, b) == The({Rat(v[1] * w[2] - w[1] * v[2], v[2] * w[2]) : v \in {a}, w \in {b}})
RMul(a, b) == The({Rat(v[1] * w[1], v[2] * w[2]) : v \in {a}, w \in {b}})
RDiv(a, b) == The({Rat(v[1] * w[2], v[2] * w[1]) : v \in {a}, w \in {b}})
RPos(a)    == a[1] > 0

\* the nearest multiple of 1/Res (ties upward)
Quantize(a) == The({Rat((2 * v[1] * Res + v[2]) \div (2 * v[2]), Res) : v \in {a}})

RECURSIVE ISqrtFrom(_, _)
ISqrtFrom(k, m) == IF (k + 1) * (k + 1) > m THEN k ELSE ISqrtFrom(k + 1, m)
\* floor of the square root of a natural number
ISqrt(m) == The({ISqrtFrom(0, v) : v \in {m}})

----------------------------------------------------------------------------
(* numpy arrays: sequences of rationals, with numpy's broadcasting of *)
(* one-dimensional operands                                            *)

Broadcastable(a, b) == Len(a) = Len(b) \/ Len(a) = 1 \/ Len(b) = 1
BLen(a, b) == IF Len(a) = 1 THEN Len(b) ELSE Len(a)
At(a, i) == IF Len(a) = 1 THEN a[1] ELSE a[i]

\* an array expression evaluated to its elements
Arr(f) == <<>> \o f

ArrSub(a, b) ==
    The({Arr([i \in 1..BLen(v, w) |-> RSub(At(v, i), At(w, i))]) : v \in {a}, w \in {b}})
ArrMul(a, b) ==
    The({Arr([i \in 1..BLen(v, w) |-> RMul(At(v, i), At(w, i))]) : v \in {a}, w \in {b}})
ScalarMul(c, a) ==
    The({Arr([i \in 1..Len(v) |-> RMul(k, v[i])]) : k \in {c}, v \in {a}})
SubScalar(a, c) ==
    The({Arr([i \in 1..Len(v) |-> RSub(v[i], k)]) : v \in {a}, k \in {c}})

RECURSIVE SumFrom(_, _)
SumFrom(a, i) == IF i > Len(a) THEN Zero ELSE RAdd(a[i], SumFrom(a, i + 1))
np_sum(a) == The({SumFrom(v, 1) : v \in {a}})

----------------------------------------------------------------------------
(* Outcomes of a call: a value, or an exception that propagates *)

NoValue == <<>>
NoCall == [prim |-> "none"]

Raise(e) == [err |-> e, out |-> NoValue, call |-> NoCall]

\* raw variates the stream can produce
RawVals == {1, 2}

\* the standard normal variate a raw variate stands for
Gauss(u) == FromInt(2 * u - 3)

\* np.random.normal(loc, scale): loc + scale * gauss, a float
normal(loc, scale, u) ==
    The({IF sd[1] < 0 THEN Raise("ValueError")
         ELSE [err |-> "none",
               out |-> Quantize(RAdd(mean, RMul(sd, Gauss(u)))),
               call |-> [prim |-> "normal", a |-> mean, b |-> sd, raw |-> u]] :
         mean \in {loc}, sd \in {scale}})

\* np.random.gamma(shape, scale): scale * standard_gamma(shape); the standard
\* variate is positive for a positive shape.  A shape or scale of exactly 0
\* raises in builds that test "<= 0" and returns 0.0 in builds that test "< 0"
\* (strict chooses between the two).
gamma(shape, scale, u, strict) ==
    The({IF k[1] < 0 \/ theta[1] < 0 THEN Raise("ValueError")
         ELSE IF (k[1] = 0 \/ theta[1] = 0) /\ strict THEN Raise("ValueError")
         ELSE [err |-> "none",
               out |-> RMul(theta, RMul(k, FromInt(u))),
               call |-> [prim |-> "gamma", a |-> k, b |-> theta, raw |-> u]] :
         k \in {shape}, theta \in {scale}})

\* 1 / np.sqrt(precision) for precision > 0, rounded down to the grid
InvSqrt(precision) ==
    The({Rat(ISqrt((Res * Res * p[2]) \div p[1]), Res) : p \in {precision}})

----------------------------------------------------------------------------
(* The three conditional samplers.  u is the raw variate the primitive *)
(* consumes if it is reached.                                          *)

\* the intercept drawn with the posterior variance passed as the scale
sample_beta_0_variance(yy, xx, b1, t, mu_0, tau_0, u) ==
    LET N == Len(yy)
        precision == RAdd(tau_0, RMul(t, FromInt(N)))
        mean == RAdd(RMul(tau_0, mu_0),
                     RMul(t, np_sum(ArrSub(yy, ScalarMul(b1, xx)))))
    IN  IF Len(xx) # N THEN Raise("AssertionError")
        ELSE The({normal(RDiv(mean, p), RDiv(FromInt(1), p), u) : p \in {precision}})

sample_beta_0(yy, xx, b1, t, mu_0, tau_0, u) ==
    LET N == Len(yy)
        precision == RAdd(tau_0, RMul(t, FromInt(N)))
        mean == RAdd(RMul(tau_0, mu_0),
                     RMul(t, np_sum(ArrSub(yy, ScalarMul(b1, xx)))))
    IN  IF Len(xx) # N THEN Raise("AssertionError")
        ELSE The({normal(RDiv(mean, p), InvSqrt(p), u) : p \in {precision}})

\* sample_beta_0 as first written (gibbs/gibbs_sampling_for_linear_regression.ipynb):
\* its last two parameters are (tau_0, mu_0), and after the length assertion it
\* asserts len(tau_0) == 1 and len(mu_0) == 1.  Hyperparameters are Python
\* numbers, as in hypers; a number has no len(), so evaluating the first of the
\* two assertions raises TypeError and the statements after it are not reached.
sample_beta_0_draft(yy, xx, b1, t, tau_0, mu_0, u) ==
    LET N == Len(yy)
    IN  IF Len(xx) # N THEN Raise("AssertionError")
        ELSE Raise("TypeError")

\* the slope drawn with the sum of x in place of the sum of its squares
sample_beta_1_unsquared(yy, xx, b0, t, mu_1, tau_1, u) ==
    LET N == Len(yy)
        precision == RAdd(tau_1, RMul(t, np_sum(xx)))
        mean == RAdd(RMul(tau_1, mu_1),
                     RMul(t, np_sum(ArrMul(SubScalar(yy, b0), xx))))
    IN  IF Len(xx) # N THEN Raise("AssertionError")
        ELSE The({normal(RDiv(mean, p), InvSqrt(p), u) : p \in {precision}})

sample_beta_1(yy, xx, b0, t, mu_1, tau_1, u) ==
    LET N == Len(yy)
        precision == RAdd(tau_1, RMul(t, np_sum(ArrMul(xx, xx))))
        mean == RAdd(RMul(tau_1, mu_1),
                     RMul(t, np_sum(ArrMul(SubScalar(yy, b0), xx))))
    IN  IF Len(xx) # N THEN Raise("AssertionError")
        ELSE The({normal(RDiv(mean, p), InvSqrt(p), u) : p \in {precision}})

\* the posterior rate passed where the primitive takes a scale
sample_tau_rate_as_scale(yy, xx, b0, b1, alpha, beta, u, strict) ==
    LET N == Len(yy)
        alpha_new == RAdd(alpha, Rat(N, 2))
        resid == ArrSub(SubScalar(yy, b0), ScalarMul(b1, xx))
        beta_new == RAdd(beta, RDiv(np_sum(ArrMul(resid, resid)), FromInt(2)))
    IN  IF ~Broadcastable(yy, xx) THEN Raise("ValueError")
        ELSE gamma(alpha_new, beta_new, u, strict)

\* the posterior shape with the sign of N / 2 slipped
sample_tau_shape_slip(yy, xx, b0, b1, alpha, beta, u, strict) ==
    LET N == Len(yy)
        alpha_new == RSub(alpha, Rat(N, 2))
        resid == ArrSub(SubScalar(yy, b0), ScalarMul(b1, xx))
        beta_new == RAdd(beta, RDiv(np_sum(ArrMul(resid, resid)), FromInt(2)))
    IN  IF ~Broadcastable(yy, xx) THEN Raise("ValueError")
        ELSE gamma(alpha_new, RDiv(FromInt(1), beta_new), u, strict)

sample_tau(yy, xx, b0, b1, alpha, beta, u, strict) ==
    LET N == Len(yy)
        alpha_new == RAdd(alpha, Rat(N, 2))
        resid == ArrSub(SubScalar(yy, b0), ScalarMul(b1, xx))
        beta_new == RAdd(beta, RDiv(np_sum(ArrMul(resid, resid)), FromInt(2)))
    IN  IF ~Broadcastable(yy, xx) THEN Raise("ValueError")
        ELSE gamma(alpha_new, RDiv(FromInt(1), beta_new), u, strict)

----------------------------------------------------------------------------
(* Inputs *)

Entries == {"gibbs", "sample_beta_0", "sample_beta_1", "sample_tau"}

RECURSIVE Ramp(_, _)
Ramp(x0, n) == IF n = 0 THEN <<>> ELSE <<FromInt(x0)>> \o Ramp(x0 + 1, n - 1)

Lens == 1..MaxN

RECURSIVE Alt(_, _)
Alt(y0, n) == IF n = 0 THEN <<>> ELSE <<FromInt(y0)>> \o Alt(1 - y0, n - 1)

\* the observed responses: y0, 1 - y0, y0, ... of a length in Lens
YVals == {Alt(y0, n) : y0 \in {0, 1}, n \in Lens}
\* the predictors: x0, x0 + 1, ... of a length in Lens
XVals == {Ramp(x0, n) : x0 \in {0, 1}, n \in Lens}

\* init of the notebook, and a second starting point
InitVals ==
    {[beta_0 |-> FromInt(0), beta_1 |-> FromInt(0), tau |-> FromInt(2)],
     [beta_0 |-> FromInt(1), beta_1 |-> FromInt(1), tau |-> FromInt(1)]}

Hyp(m0, t0, m1, t1, a, b) ==
    [mu_0 |-> FromInt(m0), tau_0 |-> FromInt(t0), mu_1 |-> FromInt(m1),
     tau_1 |-> FromInt(t1), alpha |-> FromInt(a), beta |-> FromInt(b)]

\* hypers of the notebook, and a second set with every entry changed
ValidHypers == {Hyp(0, 1, 0, 1, 2, 1), Hyp(1, 2, -1, 3, 1, 2)}
\* hyperparameters outside their range: tau_0 = 0, alpha = -1
InvalidHypers == {Hyp(0, 0, 0, 1, 2, 1), Hyp(0, 1, 0, 1, -1, 1)}
\* Every set keeps tau_1 > 0 and beta > 0, and tau_0 = 0 comes with alpha > 0,
\* so the posterior precisions and the posterior rate stay positive and
\* np.sqrt and the divisions stay inside the rationals.
HyperVals == ValidHypers \cup InvalidHypers

ValidInputs ==
    /\ Len(y) = Len(x)
    /\ RPos(hypers.tau_0) /\ RPos(hypers.tau_1)
    /\ RPos(hypers.alpha) /\ RPos(hypers.beta)
    /\ RPos(init.tau)

----------------------------------------------------------------------------
(* State *)

NoRun == [ran |-> FALSE]

Fresh ==
    /\ pc = "call"
    /\ it = 0
    /\ beta_0 = NoValue /\ beta_1 = NoValue /\ tau = NoValue
    /\ trace = <<>>
    /\ ret = NoValue
    /\ err = "none"
    /\ calls = <<>>
    /\ pos = 0

Init ==
    /\ entry \in Entries
    /\ y \in YVals
    /\ x \in XVals
    /\ iters \in 0..MaxIters
    /\ init \in InitVals
    /\ hypers \in HyperVals
    /\ (entry # "gibbs" => iters = 0)
    /\ Fresh
    /\ tape = <<>>
    /\ prev = NoRun

\* a generator of its own, not the seeded stream
FromOwnGenerator(u) == TRUE

\* np.random is one stream: the next raw variate is the next one on the tape,
\* or a new one when the tape is used up
FromStream(u) == pos < Len(tape) => u = tape[pos + 1]

Consume(u) ==
    /\ tape' = IF pos < Len(tape) THEN tape ELSE Append(tape, u)
    /\ pos' = pos + 1

Logged(fn, args, r) ==
    [fn |-> fn, it |-> it, args |-> args, prim |-> r.call.prim,
     a |-> r.call.a, b |-> r.call.b, raw |-> r.call.raw, out |-> r.out]

\* an exception leaves the function: nothing is returned
Raised(e) ==
    /\ pc' = "raised"
    /\ err' = e
    /\ UNCHANGED <<it, beta_0, beta_1, tau, trace, ret, calls, tape, pos>>

----------------------------------------------------------------------------
(* gibbs(y, x, iters, init, hypers), one action per statement of its body *)

zeros(n) == [i \in 1..n |-> <<Zero, Zero, Zero>>]

\* the entry with the slope sampled first
gibbs_enter_slope_first ==
    /\ entry = "gibbs"
    /\ pc = "call"
    /\ IF Len(y) # Len(x)
       THEN Raised("AssertionError")
       ELSE /\ beta_0' = init.beta_0
            /\ beta_1' = init.beta_1
            /\ tau' = init.tau
            /\ trace' = zeros(iters)
            /\ it' = 0
            /\ pc' = IF 0 < iters THEN "beta_1" ELSE "return"
            /\ UNCHANGED <<ret, err, calls, tape, pos>>
    /\ UNCHANGED <<inputs, prev>>

\* the entry without its assertion
gibbs_enter_unchecked ==
    /\ entry = "gibbs"
    /\ pc = "call"
    /\ beta_0' = init.beta_0
    /\ beta_1' = init.beta_1
    /\ tau' = init.tau
    /\ trace' = zeros(iters)
    /\ it' = 0
    /\ pc' = IF 0 < iters THEN "beta_0" ELSE "return"
    /\ UNCHANGED <<ret, err, calls, tape, pos>>
    /\ UNCHANGED <<inputs, prev>>

\* entry: the assertion, the locals, the trace of zeros, the first loop test
gibbs_enter ==
    /\ entry = "gibbs"
    /\ pc = "call"
    /\ IF Len(y) # Len(x)
       THEN Raised("AssertionError")
       ELSE /\ beta_0' = init.beta_0
            /\ beta_1' = init.beta_1
            /\ tau' = init.tau
            /\ trace' = zeros(iters)
            /\ it' = 0
            /\ pc' = IF 0 < iters THEN "beta_0" ELSE "return"
            /\ UNCHANGED <<ret, err, calls, tape, pos>>
    /\ UNCHANGED <<inputs, prev>>

\* the intercept drawn with the current intercept passed as the slope
gibbs_beta_0_reads_intercept ==
    /\ pc = "beta_0"
    /\ \E u \in RawVals :
         /\ FromStream(u)
         /\ \E r \in {sample_beta_0(y, x, beta_0, tau, hypers.mu_0, hypers.tau_0, u)} :
                IF r.err # "none"
                THEN Raised(r.err)
                ELSE /\ beta_0' = r.out
                     /\ calls' = Append(calls, Logged("sample_beta_0", <<beta_0, tau>>, r))
                     /\ Consume(u)
                     /\ pc' = "beta_1"
                     /\ UNCHANGED <<it, beta_1, tau, trace, ret, err>>
    /\ UNCHANGED <<inputs, prev>>

\* beta_0 = sample_beta_0(y, x, beta_1, tau, hypers["mu_0"], hypers["tau_0"])
gibbs_beta_0 ==
    /\ pc = "beta_0"
    /\ \E u \in RawVals :
         /\ FromStream(u)
         /\ \E r \in {sample_beta_0(y, x, beta_1, tau, hypers.mu_0, hypers.tau_0, u)} :
                IF r.err # "none"
                THEN Raised(r.err)
                ELSE /\ beta_0' = r.out
                     /\ calls' = Append(calls, Logged("sample_beta_0", <<beta_1, tau>>, r))
                     /\ Consume(u)
                     /\ pc' = "beta_1"
                     /\ UNCHANGED <<it, beta_1, tau, trace, ret, err>>
    /\ UNCHANGED <<inputs, prev>>

\* the slope drawn from the caller's initial intercept instead of the current one
gibbs_beta_1_stale ==
    /\ pc = "beta_1"
    /\ \E u \in RawVals :
         /\ FromStream(u)
         /\ \E r \in {sample_beta_1(y, x, init.beta_0, tau, hypers.mu_1, hypers.tau_1, u)} :
                IF r.err # "none"
                THEN Raised(r.err)
                ELSE /\ beta_1' = r.out
                     /\ calls' = Append(calls, Logged("sample_beta_1", <<init.beta_0, tau>>, r))
                     /\ Consume(u)
                     /\ pc' = "tau"
                     /\ UNCHANGED <<it, beta_0, tau, trace, ret, err>>
    /\ UNCHANGED <<inputs, prev>>

\* beta_1 = sample_beta_1(y, x, beta_0, tau, hypers["mu_1"], hypers["tau_1"])
gibbs_beta_1 ==
    /\ pc = "beta_1"
    /\ \E u \in RawVals :
         /\ FromStream(u)
         /\ \E r \in {sample_beta_1(y, x, beta_0, tau, hypers.mu_1, hypers.tau_1, u)} :
                IF r.err # "none"
                THEN Raised(r.err)
                ELSE /\ beta_1' = r.out
                     /\ calls' = Append(calls, Logged("sample_beta_1", <<beta_0, tau>>, r))
                     /\ Consume(u)
                     /\ pc' = "tau"
                     /\ UNCHANGED <<it, beta_0, tau, trace, ret, err>>
    /\ UNCHANGED <<inputs, prev>>

\* tau = sample_tau(y, x, beta_0, beta_1, hypers["alpha"], hypers["beta"])
gibbs_tau ==
    /\ pc = "tau"
    /\ \E u \in RawVals, strict \in BOOLEAN :
         /\ FromStream(u)
         /\ \E r \in {sample_tau(y, x, beta_0, beta_1, hypers.alpha, hypers.beta, u, strict)} :
                IF r.err # "none"
                THEN Raised(r.err)
                ELSE /\ tau' = r.out
                     /\ calls' = Append(calls, Logged("sample_tau", <<beta_0, beta_1>>, r))
                     /\ Consume(u)
                     /\ pc' = "record"
                     /\ UNCHANGED <<it, beta_0, beta_1, trace, ret, err>>
    /\ UNCHANGED <<inputs, prev>>

\* the recorded state written back into the caller's init as well
gibbs_record_updates_init ==
    /\ pc = "record"
    /\ trace' = [trace EXCEPT ![it + 1] = <<beta_0, beta_1, tau>>]
    /\ init' = [beta_0 |-> beta_0, beta_1 |-> beta_1, tau |-> tau]
    /\ it' = IF it + 1 < iters THEN it + 1 ELSE it
    /\ pc' = IF it + 1 < iters THEN "beta_0" ELSE "return"
    /\ UNCHANGED <<beta_0, beta_1, tau, ret, err, calls, tape, pos>>
    /\ UNCHANGED <<entry, y, x, iters, hypers, prev>>

\* every triple written to the first row
gibbs_record_first_row ==
    /\ pc = "record"
    /\ trace' = [trace EXCEPT ![1] = <<beta_0, beta_1, tau>>]
    /\ it' = IF it + 1 < iters THEN it + 1 ELSE it
    /\ pc' = IF it + 1 < iters THEN "beta_0" ELSE "return"
    /\ UNCHANGED <<beta_0, beta_1, tau, ret, err, calls, tape, pos>>
    /\ UNCHANGED <<inputs, prev>>

\* the row written one place too far
gibbs_record_off_by_one ==
    /\ pc = "record"
    /\ trace' = IF it + 2 <= Len(trace)
                THEN [trace EXCEPT ![it + 2] = <<beta_0, beta_1, tau>>]
                ELSE trace
    /\ it' = IF it + 1 < iters THEN it + 1 ELSE it
    /\ pc' = IF it + 1 < iters THEN "beta_0" ELSE "return"
    /\ UNCHANGED <<beta_0, beta_1, tau, ret, err, calls, tape, pos>>
    /\ UNCHANGED <<inputs, prev>>

\* the loop left after its first iteration
gibbs_record_early_exit ==
    /\ pc = "record"
    /\ trace' = [trace EXCEPT ![it + 1] = <<beta_0, beta_1, tau>>]
    /\ it' = it
    /\ pc' = "return"
    /\ UNCHANGED <<beta_0, beta_1, tau, ret, err, calls, tape, pos>>
    /\ UNCHANGED <<inputs, prev>>

\* trace[it,:] = np.array((beta_0, beta_1, tau)), and the next loop test
gibbs_record ==
    /\ pc = "record"
    /\ trace' = [trace EXCEPT ![it + 1] = <<beta_0, beta_1, tau>>]
    /\ it' = IF it + 1 < iters THEN it + 1 ELSE it
    /\ pc' = IF it + 1 < iters THEN "beta_0" ELSE "return"
    /\ UNCHANGED <<beta_0, beta_1, tau, ret, err, calls, tape, pos>>
    /\ UNCHANGED <<inputs, prev>>

\* return trace
gibbs_return ==
    /\ pc = "return"
    /\ ret' = trace
    /\ pc' = "done"
    /\ UNCHANGED <<it, beta_0, beta_1, tau, trace, err, calls, tape, pos>>
    /\ UNCHANGED <<inputs, prev>>

----------------------------------------------------------------------------
(* Direct calls of the samplers; init supplies the current parameter values *)

Returned(fn, args, r, u) ==
    IF r.err # "none"
    THEN Raised(r.err)
    ELSE /\ ret' = r.out
         /\ calls' = Append(calls, Logged(fn, args, r))
         /\ Consume(u)
         /\ pc' = "done"
         /\ UNCHANGED <<it, beta_0, beta_1, tau, trace, err>>

call_sample_beta_0 ==
    /\ entry = "sample_beta_0"
    /\ pc = "call"
    /\ \E u \in RawVals :
         /\ FromStream(u)
         /\ Returned("sample_beta_0", <<init.beta_1, init.tau>>,
                     sample_beta_0(y, x, init.beta_1, init.tau,
                                   hypers.mu_0, hypers.tau_0, u), u)
    /\ UNCHANGED <<inputs, prev>>

call_sample_beta_1 ==
    /\ entry = "sample_beta_1"
    /\ pc = "call"
    /\ \E u \in RawVals :
         /\ FromStream(u)
         /\ Returned("sample_beta_1", <<init.beta_0, init.tau>>,
                     sample_beta_1(y, x, init.beta_0, init.tau,
                                   hypers.mu_1, hypers.tau_1, u), u)
    /\ UNCHANGED <<inputs, prev>>

call_sample_tau ==
    /\ entry = "sample_tau"
    /\ pc = "call"
    /\ \E u \in RawVals, strict \in BOOLEAN :
         /\ FromStream(u)
         /\ Returned("sample_tau", <<init.beta_0, init.beta_1>>,
                     sample_tau(y, x, init.beta_0, init.beta_1,
                                hypers.alpha, hypers.beta, u, strict), u)
    /\ UNCHANGED <<inputs, prev>>

----------------------------------------------------------------------------

Next ==
    \/ gibbs_enter
    \/ gibbs_beta_0
    \/ gibbs_beta_1
    \/ gibbs_tau
    \/ gibbs_record
    \/ gibbs_return
    \/ call_sample_beta_0
    \/ call_sample_beta_1
    \/ call_sample_tau

Spec == Init /\ [][Next]_vars

\* calls with hyperparameters in their range
InitValid == Init /\ hypers \in ValidHypers

\* the interpreter runs a call to its end
FairSpec == InitValid /\ [][Next]_vars /\ WF_vars(Next)

----------------------------------------------------------------------------
(* A second call after reseeding: the caller seeds np.random as before the *)
(* first call and calls the same function on the same data and             *)
(* hyperparameters, with a budget no larger than the first and starting     *)
(* values of its choice.                                                   *)

reseed_and_call_again ==
    /\ pc \in {"done", "raised"}
    /\ prev = NoRun
    /\ prev' = [ran |-> TRUE, iters |-> iters, init |-> init,
                ret |-> ret, err |-> err, calls |-> calls]
    /\ \E k \in 0..iters, i0 \in InitVals, i1 \in InitVals :
         /\ iters' = k
         /\ init' = [beta_0 |-> i0.beta_0, beta_1 |-> i1.beta_1, tau |-> i1.tau]
    /\ pc' = "call"
    /\ it' = 0
    /\ beta_0' = NoValue /\ beta_1' = NoValue /\ tau' = NoValue
    /\ trace' = <<>>
    /\ ret' = NoValue
    /\ err' = "none"
    /\ calls' = <<>>
    /\ pos' = 0
    /\ UNCHANGED <<entry, y, x, hypers, tape>>

\* the first call is the notebook's: its init and its hypers, on one or two
\* observations
InitPair ==
    /\ Init
    /\ iters <= MaxPairIters
    /\ Len(y) <= 2 /\ Len(x) <= 2
    /\ init = [beta_0 |-> FromInt(0), beta_1 |-> FromInt(0), tau |-> FromInt(2)]
    /\ hypers = Hyp(0, 1, 0, 1, 2, 1)

NextPair == Next \/ reseed_and_call_again

SpecPair == InitPair /\ [][NextPair]_vars

----------------------------------------------------------------------------
(* The samplers called on their own, as functions of their arguments: the  *)
(* caller passes any current parameter values, not only those of the       *)
(* notebook's init.                                                        *)

\* current parameter values a caller passes
ParamVals ==
    [beta_0 : {FromInt(0), FromInt(1), Rat(-1, 2)},
     beta_1 : {FromInt(0), FromInt(1), Rat(-1, 2)},
     tau : {FromInt(1), FromInt(2), Rat(1, 2)}]

\* the samplers of both notebooks
CallEntries == (Entries \ {"gibbs"}) \cup {"sample_beta_0_draft"}

\* the first version called as the later one is: (..., prior mean, prior precision)
call_sample_beta_0_draft ==
    /\ entry = "sample_beta_0_draft"
    /\ pc = "call"
    /\ \E u \in RawVals :
         /\ FromStream(u)
         /\ Returned("sample_beta_0", <<init.beta_1, init.tau>>,
                     sample_beta_0_draft(y, x, init.beta_1, init.tau,
                                         hypers.mu_0, hypers.tau_0, u), u)
    /\ UNCHANGED <<inputs, prev>>

InitCalls ==
    /\ entry \in CallEntries
    /\ y \in YVals
    /\ x \in XVals
    /\ iters = 0
    /\ init \in ParamVals
    /\ hypers \in HyperVals
    /\ Fresh
    /\ tape = <<>>
    /\ prev = NoRun

NextCalls ==
    \/ call_sample_beta_0
    \/ call_sample_beta_1
    \/ call_sample_tau
    \/ call_sample_beta_0_draft

SpecCalls == InitCalls /\ [][NextCalls]_vars

----------------------------------------------------------------------------
(* Reading the log of draws *)

IsGibbs == entry = "gibbs"

\* index of the latest draw of sampler fn before the k-th draw, 0 if none
LatestIdx(fn, k) ==
    LET S == {j \in 1..(k - 1) : calls[j].fn = fn}
    IN  IF S = {} THEN 0 ELSE CHOOSE j \in S : \A j2 \in S : j2 <= j

\* the value of the parameter fn draws that is current at the k-th draw
Latest(fn, k, initial) ==
    IF LatestIdx(fn, k) = 0 THEN initial ELSE calls[LatestIdx(fn, k)].out

\* the iteration (0-based) whose draw of fn is current at the k-th draw, -1 for
\* the caller's initial value
LatestIt(fn, k) ==
    IF LatestIdx(fn, k) = 0 THEN -1 ELSE calls[LatestIdx(fn, k)].it

\* the value sampler fn drew in iteration i (1-based)
DrawnIn(fn, i) ==
    calls[CHOOSE k \in 1..Len(calls) : calls[k].fn = fn /\ calls[k].it = i - 1].out

HasDraw(fn, i) ==
    \E k \in 1..Len(calls) : calls[k].fn = fn /\ calls[k].it = i - 1

\* rows of the trace that have been assigned
RowsWritten ==
    IF pc \in {"return", "done"} THEN Len(trace)
    ELSE IF pc = "call" THEN 0 ELSE it

----------------------------------------------------------------------------
(* C1 *)

\* C1: in every iteration of gibbs each draw reads the freshest state: the
\* intercept draw gets the slope and precision left by the previous iteration
\* (the caller's initial ones in the first), the slope draw gets the intercept
\* drawn in this iteration and the precision of the previous one, the precision
\* draw gets the intercept and slope both drawn in this iteration.
C1_FreshestState ==
    IsGibbs =>
      \A k \in 1..Len(calls) :
        LET c == calls[k] IN
        /\ c.fn = "sample_beta_0" =>
             /\ c.args = <<Latest("sample_beta_1", k, init.beta_1),
                           Latest("sample_tau", k, init.tau)>>
             /\ LatestIt("sample_beta_1", k) = c.it - 1
             /\ LatestIt("sample_tau", k) = c.it - 1
        /\ c.fn = "sample_beta_1" =>
             /\ c.args = <<Latest("sample_beta_0", k, init.beta_0),
                           Latest("sample_tau", k, init.tau)>>
             /\ LatestIt("sample_beta_0", k) = c.it
             /\ LatestIt("sample_tau", k) = c.it - 1
        /\ c.fn = "sample_tau" =>
             /\ c.args = <<Latest("sample_beta_0", k, init.beta_0),
                           Latest("sample_beta_1", k, init.beta_1)>>
             /\ LatestIt("sample_beta_0", k) = c.it
             /\ LatestIt("sample_beta_1", k) = c.it

\* a finished run of two iterations whose second iteration read values that
\* differ from the caller's initial ones
C1_Witness ==
    /\ IsGibbs /\ pc = "done" /\ iters = 2 /\ Len(calls) = 6
    /\ calls[4].args # <<init.beta_1, init.tau>>
    /\ calls[5].args[1] # init.beta_0
    /\ calls[5].args[1] # calls[1].out

----------------------------------------------------------------------------
(* C2 *)

FnOrder == <<"sample_beta_0", "sample_beta_1", "sample_tau">>
PrimOrder == <<"normal", "normal", "gamma">>

\* the draws so far are those of the iterations in order, three per iteration
DrawsInOrder ==
    \A k \in 1..Len(calls) :
      /\ calls[k].fn = FnOrder[((k - 1) % 3) + 1]
      /\ calls[k].prim = PrimOrder[((k - 1) % 3) + 1]
      /\ calls[k].it = (k - 1) \div 3

\* where the driver stands fixes how many draws have been taken
DrawsAtPc ==
    /\ pc = "beta_0" => Len(calls) = 3 * it /\ pos = 3 * it
    /\ pc = "beta_1" => Len(calls) = 3 * it + 1 /\ pos = 3 * it + 1
    /\ pc = "tau" => Len(calls) = 3 * it + 2 /\ pos = 3 * it + 2
    /\ pc = "record" => Len(calls) = 3 * it + 3 /\ pos = 3 * it + 3
    /\ pc \in {"return", "done"} => Len(calls) = 3 * iters /\ pos = 3 * iters

\* a step changes a parameter only by its own draw (or by the entry, which
\* loads the caller's value), and the trace only by recording after the
\* precision draw of the iteration
OneMutationEach ==
    /\ beta_0' # beta_0 => pc \in {"call", "beta_0"} /\ pc' \in {"beta_0", "return", "beta_1"}
    /\ beta_1' # beta_1 => pc \in {"call", "beta_1"} /\ pc' \in {"beta_0", "return", "tau"}
    /\ tau' # tau => pc \in {"call", "tau"} /\ pc' \in {"beta_0", "return", "record"}
    /\ (pc # "call" /\ trace' # trace) =>
          /\ pc = "record"
          /\ Len(calls) = 3 * it + 3
          /\ calls[Len(calls)].fn = "sample_tau"
    /\ pc = "record" => trace'[it + 1] = <<beta_0, beta_1, tau>>
    /\ Len(calls') > Len(calls) => Len(calls') = Len(calls) + 1 /\ pos' = pos + 1

\* C2: within every iteration of gibbs the events occur in the order intercept
\* draw, slope draw, precision draw, recording of the triple; each parameter is
\* mutated once per iteration, so K iterations take 3K draws from the random
\* source in the repeating order normal, normal, gamma.
C2_FixedOrder ==
    /\ [](IsGibbs => DrawsInOrder /\ DrawsAtPc)
    /\ [][IsGibbs => OneMutationEach]_vars

\* a finished run of two iterations: six draws
C2_Witness == IsGibbs /\ pc = "done" /\ iters = 2 /\ Len(calls) = 6 /\ pos = 6

----------------------------------------------------------------------------
(* C3 *)

\* C3: for every iters = K >= 1 and equal-length y, x, gibbs returns a trace of
\* exactly K rows, row i being the triple (intercept, slope, precision) the
\* state holds at the end of iteration i, in generation order; the caller's
\* initial state is not a row.  (With valid inputs the call does return.)
C3_TraceRows ==
    /\ (IsGibbs /\ ValidInputs) => pc # "raised"
    /\ (IsGibbs /\ pc = "done" /\ iters >= 1) =>
         /\ Len(y) = Len(x)
         /\ Len(ret) = iters
         /\ \A i \in 1..iters :
              /\ HasDraw("sample_beta_0", i)
              /\ HasDraw("sample_beta_1", i)
              /\ HasDraw("sample_tau", i)
              /\ ret[i] = <<DrawnIn("sample_beta_0", i),
                            DrawnIn("sample_beta_1", i),
                            DrawnIn("sample_tau", i)>>

\* a returned trace of two rows that differ, the first not the initial state
C3_Witness ==
    /\ IsGibbs /\ pc = "done" /\ iters = 2 /\ Len(ret) = 2
    /\ ret[1] # ret[2]
    /\ ret[1] # <<init.beta_0, init.beta_1, init.tau>>

----------------------------------------------------------------------------
(* C4 *)

\* C4: for valid inputs the precision of the state is strictly positive after
\* every iteration, every precision in the returned trace is strictly
\* positive, and the gamma primitive is always called with a strictly positive
\* shape and a strictly positive scale (so it never rejects its arguments).
C4_PrecisionPositive ==
    (IsGibbs /\ ValidInputs) =>
      /\ pc # "raised"
      /\ tau # NoValue => RPos(tau)
      /\ \A k \in 1..Len(calls) :
           calls[k].prim = "gamma" =>
             RPos(calls[k].a) /\ RPos(calls[k].b) /\ RPos(calls[k].out)
      /\ \A i \in 1..RowsWritten : RPos(trace[i][3])
      /\ pc = "done" => \A i \in 1..Len(ret) : RPos(ret[i][3])

\* a finished valid run of two iterations whose two precision draws differ
C4_Witness ==
    /\ IsGibbs /\ ValidInputs /\ pc = "done" /\ iters = 2
    /\ ret[1][3] # ret[2][3]
    /\ ret[2][3] # init.tau

----------------------------------------------------------------------------
(* C5 *)

\* C5: with y and x of unequal lengths, gibbs, sample_beta_0 and sample_beta_1
\* each fail at once with a contract violation: no draw is taken from the
\* random source, no trace row is written and nothing is returned.
C5_MismatchFailsFast ==
    (Len(y) # Len(x) /\ entry \in {"gibbs", "sample_beta_0", "sample_beta_1"}) =>
      /\ pc \in {"call", "raised"}
      /\ pc = "raised" => err = "AssertionError"
      /\ calls = <<>> /\ pos = 0 /\ tape = <<>>
      /\ trace = <<>>
      /\ ret = NoValue

\* gibbs has failed on sequences of unequal lengths
C5_Witness ==
    /\ IsGibbs /\ Len(y) # Len(x) /\ iters = 2
    /\ pc = "raised" /\ err = "AssertionError"

----------------------------------------------------------------------------
(* C6 *)

\* C6: a call of sample_tau with len(y) # len(x) is a fatal contract violation
\* that propagates at once: it returns no draw and consumes no entropy, for
\* every pair of unequal lengths, a length of 1 included.
C6_TauMismatchFatal ==
    (entry = "sample_tau" /\ Len(y) # Len(x)) =>
      /\ pc # "done"
      /\ ret = NoValue
      /\ calls = <<>> /\ pos = 0

----------------------------------------------------------------------------
(* C7 *)

ValidHyper ==
    /\ RPos(hypers.tau_0) /\ RPos(hypers.tau_1)
    /\ RPos(hypers.alpha) /\ RPos(hypers.beta)

\* C7: a run given a non-positive tau_0, tau_1, alpha or beta is aborted at
\* once with a fatal contract violation: no iteration is executed with such a
\* value and no trace is returned.
C7_InvalidHyperAborts ==
    (IsGibbs /\ ~ValidHyper /\ iters >= 1) =>
      /\ calls = <<>> /\ pos = 0
      /\ pc # "done" /\ ret = NoValue

----------------------------------------------------------------------------
(* C8 *)

\* C8: if the gamma primitive yields a non-positive precision draw the run is
\* aborted at that step: the value is never stored in the trace and never
\* passed as the precision of a later intercept or slope draw.
C8_NonPositiveDrawAborts ==
    IsGibbs =>
      /\ \A i \in 1..RowsWritten : RPos(trace[i][3])
      /\ \A k \in 1..Len(calls) :
           (calls[k].prim = "normal" /\ calls[k].it > 0) => RPos(calls[k].args[2])

----------------------------------------------------------------------------
(* C9 *)

SameCall == prev.ran /\ prev.iters = iters /\ prev.init = init

\* C9: two calls with the same y, x, iters, initial state and hyperparameters
\* that are fed the same sequence of random-source outputs end the same way:
\* the same draws and, for gibbs, the same trace row for row; for a single
\* call of sample_beta_0 or sample_beta_1, the same returned draw.
C9_Deterministic ==
    (SameCall /\ pc \in {"done", "raised"}) =>
      /\ ret = prev.ret
      /\ err = prev.err
      /\ calls = prev.calls

\* two finished gibbs runs of two iterations on the same inputs and stream
C9_Witness ==
    /\ IsGibbs /\ SameCall /\ pc = "done" /\ iters = 2
    /\ Len(ret) = 2 /\ ret[1] # ret[2]
    /\ pos = 6 /\ Len(tape) = 6

\* two finished calls of sample_beta_0 on the same inputs and stream
C9_WitnessSampler ==
    /\ entry = "sample_beta_0" /\ SameCall /\ pc = "done" /\ ret # NoValue

----------------------------------------------------------------------------
(* C10 *)

\* the loop runs exactly iters iterations
BudgetKept ==
    /\ Len(calls) <= 3 * iters
    /\ RowsWritten <= iters
    /\ pc \in {"beta_0", "beta_1", "tau", "record"} => it < iters
    /\ pc \in {"return", "done"} => Len(calls) = 3 * iters /\ RowsWritten = iters

\* the loop is left only from its test, with the budget used up
ExitOnlyAtBudget ==
    (pc # "return" /\ pc' = "return") =>
       \/ pc = "call" /\ iters = 0
       \/ pc = "record" /\ it + 1 = iters

\* C10: for every valid input and budget K gibbs terminates, and only when the
\* budget is exhausted: it executes exactly K iterations, never stops earlier
\* and never runs an iteration beyond K.
C10_TerminatesAtBudget ==
    /\ (IsGibbs /\ ValidInputs) ~> (pc = "done")
    /\ [](IsGibbs => BudgetKept)
    /\ [][IsGibbs => ExitOnlyAtBudget]_vars

\* a valid run of two iterations has returned
C10_Witness ==
    /\ IsGibbs /\ ValidInputs /\ pc = "done" /\ iters = 2
    /\ Len(calls) = 6 /\ Len(ret) = 2

----------------------------------------------------------------------------
(* C11 *)

\* the sum over the observations of a term given per index
SumOver(term) == np_sum(Arr(term))

\* sd is the grid value of 1 / sqrt(p): the largest multiple k / Res whose
\* square times p does not exceed 1
IsInvSqrtOf(sd, p) ==
    /\ sd[1] >= 0
    /\ Res % sd[2] = 0
    /\ LET k == sd[1] * (Res \div sd[2])
       IN  /\ k * k * p[1] <= Res * Res * p[2]
           /\ (k + 1) * (k + 1) * p[1] > Res * Res * p[2]

InterceptPrecision(t) == RAdd(hypers.tau_0, RMul(t, FromInt(Len(y))))

InterceptMean(b1, t) ==
    RDiv(RAdd(RMul(hypers.tau_0, hypers.mu_0),
              RMul(t, SumOver([i \in 1..Len(y) |-> RSub(y[i], RMul(b1, x[i]))]))),
         InterceptPrecision(t))

\* C11: for equal-length y, x (N >= 1), a slope, a precision > 0, mu_0 and
\* tau_0 > 0, sample_beta_0 draws from a normal whose precision is
\* tau_0 + precision * N and whose mean is
\* (tau_0 * mu_0 + precision * sum_i(y_i - slope * x_i)) / (tau_0 + precision * N):
\* it passes that mean and the standard deviation 1 / sqrt(posterior precision)
\* to the normal primitive and returns its draw.
C11_InterceptPosterior ==
    \A k \in 1..Len(calls) :
      LET c == calls[k] IN
      (c.fn = "sample_beta_0" /\ Len(y) = Len(x)
         /\ RPos(c.args[2]) /\ RPos(hypers.tau_0)) =>
        /\ c.prim = "normal"
        /\ c.a = InterceptMean(c.args[1], c.args[2])
        /\ IsInvSqrtOf(c.b, InterceptPrecision(c.args[2]))
        /\ c.out = Quantize(RAdd(c.a, RMul(c.b, Gauss(c.raw))))
        /\ (entry = "sample_beta_0" /\ pc = "done") => ret = c.out

\* the single observation (x = 0, y = 0) with tau_0 = 1, mu_0 = 0, precision 1
\* and slope 0: posterior precision 2, posterior mean 0
C11_Witness ==
    /\ entry = "sample_beta_0" /\ pc = "done" /\ Len(calls) = 1
    /\ y = <<FromInt(0)>> /\ x = <<FromInt(0)>>
    /\ hypers.tau_0 = FromInt(1) /\ hypers.mu_0 = FromInt(0)
    /\ calls[1].args = <<FromInt(0), FromInt(1)>>
    /\ InterceptPrecision(calls[1].args[2]) = FromInt(2)
    /\ calls[1].a = FromInt(0)
    /\ calls[1].b = Rat(ISqrt((Res * Res) \div 2), Res)

\* three observations, a non-zero slope and a fractional precision
C11_WitnessGeneral ==
    /\ entry = "sample_beta_0" /\ pc = "done" /\ Len(calls) = 1
    /\ Len(y) = 3 /\ Len(x) = 3
    /\ RPos(hypers.tau_0) /\ hypers.mu_0 # Zero
    /\ calls[1].args = <<Rat(-1, 2), Rat(1, 2)>>
    /\ calls[1].a # Zero

----------------------------------------------------------------------------
(* C12 *)

SlopePrecision(t) ==
    RAdd(hypers.tau_1, RMul(t, SumOver([i \in 1..Len(x) |-> RMul(x[i], x[i])])))

SlopeMean(b0, t) ==
    RDiv(RAdd(RMul(hypers.tau_1, hypers.mu_1),
              RMul(t, SumOver([i \in 1..Len(y) |-> RMul(RSub(y[i], b0), x[i])]))),
         SlopePrecision(t))

\* C12: for equal-length y, x (N >= 1), an intercept, a precision > 0, mu_1 and
\* tau_1 > 0, sample_beta_1 draws from a normal whose precision is
\* tau_1 + precision * sum_i(x_i^2) and whose mean is
\* (tau_1 * mu_1 + precision * sum_i((y_i - intercept) * x_i)) divided by that
\* precision: it passes that mean and the standard deviation
\* 1 / sqrt(posterior precision) to the normal primitive and returns its draw.
C12_SlopePosterior ==
    \A k \in 1..Len(calls) :
      LET c == calls[k] IN
      (c.fn = "sample_beta_1" /\ Len(y) = Len(x)
         /\ RPos(c.args[2]) /\ RPos(hypers.tau_1)) =>
        /\ c.prim = "normal"
        /\ c.a = SlopeMean(c.args[1], c.args[2])
        /\ IsInvSqrtOf(c.b, SlopePrecision(c.args[2]))
        /\ c.out = Quantize(RAdd(c.a, RMul(c.b, Gauss(c.raw))))
        /\ (entry = "sample_beta_1" /\ pc = "done") => ret = c.out

\* a call on x = (1, 2), y = (1, 0) with intercept -1/2 and precision 2 under
\* mu_1 = -1, tau_1 = 3: posterior precision 3 + 2 * 5 = 13
C12_Witness ==
    /\ entry = "sample_beta_1" /\ pc = "done" /\ Len(calls) = 1
    /\ x = <<FromInt(1), FromInt(2)>> /\ y = <<FromInt(1), FromInt(0)>>
    /\ hypers.mu_1 = FromInt(-1) /\ hypers.tau_1 = FromInt(3)
    /\ calls[1].args = <<Rat(-1, 2), FromInt(2)>>
    /\ SlopePrecision(calls[1].args[2]) = FromInt(13)
    /\ calls[1].a = Rat(2, 13)

----------------------------------------------------------------------------
(* C13 *)

\* the posterior rate: beta + sum_i((y_i - intercept - slope * x_i)^2) / 2
PosteriorRate(b0, b1) ==
    LET resid == [i \in 1..Len(y) |-> RSub(RSub(y[i], b0), RMul(b1, x[i]))]
    IN  RAdd(hypers.beta,
             RDiv(SumOver([i \in 1..Len(y) |-> RMul(resid[i], resid[i])]), FromInt(2)))

\* C13: for equal-length y, x (N >= 1, odd N included), an intercept, a slope,
\* alpha > 0 and beta > 0, sample_tau calls the (shape, scale) gamma primitive
\* with shape = alpha + N / 2, the exact half (twice the shape is 2 * alpha + N),
\* and with scale = 1 / (beta + sum_i((y_i - intercept - slope * x_i)^2) / 2):
\* the scale times the posterior rate is 1, so the scale is the reciprocal of
\* the rate and never the rate itself.
C13_GammaShapeScale ==
    \A k \in 1..Len(calls) :
      LET c == calls[k] IN
      (c.fn = "sample_tau" /\ Len(y) = Len(x)
         /\ RPos(hypers.alpha) /\ RPos(hypers.beta)) =>
        /\ c.prim = "gamma"
        /\ RMul(FromInt(2), c.a) = RAdd(RMul(FromInt(2), hypers.alpha), FromInt(Len(y)))
        /\ RMul(c.b, PosteriorRate(c.args[1], c.args[2])) = FromInt(1)
        /\ c.out = RMul(c.b, RMul(c.a, FromInt(c.raw)))
        /\ (entry = "sample_tau" /\ pc = "done") => ret = c.out

\* a call on three observations (odd N) with a rate other than 1: the shape
\* is not an integer and the scale differs from the rate
C13_Witness ==
    /\ entry = "sample_tau" /\ pc = "done" /\ Len(calls) = 1
    /\ Len(y) = 3 /\ Len(x) = 3
    /\ hypers.alpha = FromInt(2) /\ hypers.beta = FromInt(1)
    /\ calls[1].a = Rat(7, 2)
    /\ PosteriorRate(calls[1].args[1], calls[1].args[2]) # FromInt(1)
    /\ calls[1].b # PosteriorRate(calls[1].args[1], calls[1].args[2])

----------------------------------------------------------------------------
(* C14 *)

\* C14: sample_beta_0 has no error path other than the mismatch of the input
\* shapes: called with equal-length y and x (N >= 1), a real slope, a real
\* precision > 0, and a real prior mean and a real prior precision > 0 given
\* in the order (prior mean, prior precision), it always completes and
\* returns one real draw.  This is said of sample_beta_0 in both notebooks.
C14_InterceptAlwaysCompletes ==
    (entry \in {"sample_beta_0", "sample_beta_0_draft"} /\ Len(y) = Len(x)
       /\ RPos(init.tau) /\ RPos(hypers.tau_0)) =>
      /\ pc # "raised" /\ err = "none"
      /\ pc = "done" =>
           /\ Len(calls) = 1 /\ pos = 1
           /\ calls[1].prim = "normal"
           /\ ret = calls[1].out

\* the same of the later notebook's sample_beta_0 alone
InterceptCompletesLater ==
    entry = "sample_beta_0_draft" \/ C14_InterceptAlwaysCompletes

----------------------------------------------------------------------------
(* C15 *)

\* within a call, a step keeps every row written so far
RowsKept ==
    (IsGibbs /\ pc' # "call") =>
      /\ RowsWritten' >= RowsWritten
      /\ \A i \in 1..RowsWritten : trace'[i] = trace[i]
      /\ pc' = "done" => ret' = trace

\* a finished run of j iterations after a finished run of K >= j iterations
\* from the same initial state (same data, hyperparameters and stream)
ShorterRunAgain ==
    /\ IsGibbs /\ prev.ran /\ prev.init = init /\ prev.err = "none"
    /\ prev.iters >= iters
    /\ pc = "done"

\* C15: the trace is append-only and every prefix is a valid shorter run: once
\* row i has been written no later iteration modifies it, and for every j <= K
\* the first j rows of a K-iteration run are the complete trace of a
\* j-iteration run on the same inputs, initial state, hyperparameters and
\* random-source sequence.
C15_AppendOnlyPrefix ==
    /\ [][RowsKept]_vars
    /\ [](ShorterRunAgain =>
            /\ Len(ret) = iters
            /\ \A i \in 1..iters : ret[i] = prev.ret[i])

\* a run of one iteration after a run of two whose rows differ
C15_Witness ==
    /\ ShorterRunAgain /\ prev.iters = 2 /\ iters = 1
    /\ Len(prev.ret) = 2 /\ Len(ret) = 1
    /\ prev.ret[2] # prev.ret[1]
    /\ ret[1] = prev.ret[1]

----------------------------------------------------------------------------
(* C16 *)

\* a second run that ended, with the budget, initial slope and initial
\* precision of the first (and its data, hyperparameters and stream)
SameButIntercept ==
    /\ IsGibbs /\ prev.ran /\ prev.iters = iters
    /\ prev.init.beta_1 = init.beta_1 /\ prev.init.tau = init.tau
    /\ pc \in {"done", "raised"}

\* C16: the trace does not depend on the initial intercept: two gibbs runs that
\* differ only in init["beta_0"] and are fed the same random-source sequence
\* produce identical traces (and identical draws), the intercept being the
\* first parameter sampled; the initial slope and the initial precision, by
\* contrast, are read by the first iteration: they are the arguments of its
\* intercept draw.
C16_InitialInterceptUnread ==
    /\ SameButIntercept =>
         /\ ret = prev.ret
         /\ err = prev.err
         /\ calls = prev.calls
    /\ (IsGibbs /\ Len(calls) >= 1) =>
         /\ calls[1].fn = "sample_beta_0"
         /\ calls[1].args = <<init.beta_1, init.tau>>

\* two finished runs of two iterations that differ in the initial intercept only
C16_Witness ==
    /\ SameButIntercept /\ pc = "done" /\ iters = 2
    /\ prev.init.beta_0 # init.beta_0
    /\ Len(ret) = 2 /\ ret = prev.ret
    /\ ret[1][1] # init.beta_0 /\ ret[1][1] # prev.init.beta_0

\* two finished runs on the same stream that differ in the initial slope and
\* precision, not in the initial intercept: their traces differ
C16_WitnessContrast ==
    /\ IsGibbs /\ prev.ran /\ prev.iters = iters /\ pc = "done" /\ iters >= 1
    /\ prev.init.beta_0 = init.beta_0
    /\ prev.init # init
    /\ ret # prev.ret

----------------------------------------------------------------------------
(* C17 *)

\* a step leaves the arguments of the call as they are
ArgumentsKept ==
    /\ y' = y /\ x' = x
    /\ hypers' = hypers
    /\ init' = init
    /\ iters' = iters /\ entry' = entry

\* the random source only moves forward: a draw takes one variate, and the
\* variates already produced stay as they were
StreamAdvances ==
    /\ pos' \in {pos, pos + 1}
    /\ Len(tape') >= Len(tape)
    /\ \A i \in 1..Len(tape) : tape'[i] = tape[i]

\* C17: a gibbs run, and each call of the three samplers, leaves its inputs
\* unchanged: y, x, the hyperparameter map and the caller's initial-state map
\* hold the same values after every step, hence after the run, as before it;
\* what changes is the driver's (intercept, slope, precision) triple, the
\* trace and the position of the random source.
C17_InputsUnchanged == [][ArgumentsKept /\ StreamAdvances]_vars

\* a finished run of two iterations: the triple has left the initial state,
\* two rows are written and six variates are consumed
C17_Witness ==
    /\ IsGibbs /\ pc = "done" /\ iters = 2
    /\ <<beta_0, beta_1, tau>> # <<init.beta_0, init.beta_1, init.tau>>
    /\ trace[2] = <<beta_0, beta_1, tau>>
    /\ pos = 6

\* a finished call of sample_tau
C17_WitnessSampler ==
    /\ entry = "sample_tau" /\ pc = "done" /\ pos = 1 /\ ret # NoValue

====
